---- MODULE Spec2Model ----
(***************************************************************************)
(* A model of src/main.py, the $PETS buy-alert bot: the price resolvers,   *)
(* the Etherscan transaction fetcher, the dedup ledger                     *)
(* (posted_transactions / posted_transactions.txt), process_transaction    *)
(* with send_video_with_retry, the Monitor Loop and the admin commands.    *)
(*                                                                         *)
(* Numbers.  Python floats are modelled as decimals m * 10^e, a record     *)
(* [t |-> "num", m, e], plus the one float that is not a number,           *)
(* [t |-> "nan"].  Arithmetic is exact on the values used; the binary      *)
(* rounding of IEEE doubles is not modelled.  None is modelled as 0 where  *)
(* the code only tests truthiness (last_block_number,                      *)
(* last_transaction_hash); transaction identifiers are 1, 2, ...           *)
(***************************************************************************)
EXTENDS Integers, Sequences, FiniteSets, TLC

----------------------------------------------------------------------------
(* Decimal floats *)

Num(m, e) == [t |-> "num", m |-> m, e |-> e]

NaN == [t |-> "nan", m |-> 0, e |-> 0]

IsNaN(x) == x.t = "nan"

RECURSIVE Pow10(_)
Pow10(k) == IF k <= 0 THEN 1 ELSE 10 * Pow10(k - 1)

\* int(x) / floor of a non-negative decimal
Floor(x) == IF x.e >= 0 THEN x.m * Pow10(x.e) ELSE x.m \div Pow10(0 - x.e)

\* x <= 0 as Python evaluates it: every comparison with NaN is False
LeZero(x) == x.t = "num" /\ x.m <= 0

\* x < n for an integer n (x < n iff floor(x) < n); False for NaN
LtInt(x, n) == x.t = "num" /\ Floor(x) < n

Mul(a, b) == IF IsNaN(a) \/ IsNaN(b) THEN NaN ELSE Num(a.m * b.m, a.e + b.e)

\* a / b for integers a, b > 0, kept to DivDigits decimal digits
DivDigits == 3

DivInt(a, b) == Num((a * Pow10(DivDigits)) \div b, 0 - DivDigits)

----------------------------------------------------------------------------
(* Configuration and constants of main.py *)

FALLBACK_ETH_PRICE == Num(3000, 0)

FALLBACK_PETS_PRICE == Num(3886, -8)

MIN_USD == 50

BUY_THRESHOLD_SMALL == 100

BUY_THRESHOLD_MEDIUM == 500

BUY_THRESHOLD_LARGE == 1000

MAX_RETRIES == 3

RETRY_ATTEMPTS == 3

MAX_RECENT_ERRORS == 5

----------------------------------------------------------------------------
(* Price sources.  An HTTP price source answers with a transport error     *)
(* (requests raises a RequestException, which carries a .response) or with *)
(* a payload whose price field is a JSON value.                            *)

HttpError == [kind |-> "http_error", price |-> NaN]

Payload(p) == [kind |-> "payload", price |-> p]

\* price fields that are not numbers: the key is absent, null, or a string
\* float() rejects
Missing == [t |-> "missing", m |-> 0, e |-> 0]

Null == [t |-> "null", m |-> 0, e |-> 0]

Garbage == [t |-> "garbage", m |-> 0, e |-> 0]

Unconsulted == [kind |-> "unconsulted", price |-> NaN]

\* the outcome of one try block: a value, or an exception with or without
\* a .response attribute
Value(v) == [res |-> "value", val |-> v]

RequestException == [res |-> "request_exception", val |-> NaN]

PlainException == [res |-> "exception", val |-> NaN]

\* lines 193-208 / 215-230 / 239-254 / 278-293: request, raise_for_status,
\* read the price field (default '0'), type check, float(), positivity
ParseSource(resp) ==
    IF resp.kind = "http_error" THEN RequestException
    ELSE LET price_str == IF resp.price = Missing THEN Num(0, 0) ELSE resp.price
         IN  IF price_str = Null THEN PlainException
             ELSE IF price_str = Garbage THEN PlainException
             ELSE IF LeZero(price_str) THEN PlainException
             ELSE Value(price_str)

\* what a call returns to its caller
Return(v, used) == [raised |-> FALSE, val |-> v, used |-> used]

Raise(used) == [raised |-> TRUE, val |-> NaN, used |-> used]

\* one execution of the body of get_eth_to_usd.  The except clause formats
\* e.response before anything else: an exception without that attribute
\* makes the handler itself raise AttributeError, which leaves the function.
EthAttempt(hasKey, env) ==
    LET g == ParseSource(env.gecko)
    IN  IF g.res = "value" THEN Return(g.val, {"gecko"})
        ELSE IF g.res = "exception" THEN Raise({"gecko"})
        ELSE IF ~hasKey THEN Return(FALLBACK_ETH_PRICE, {"gecko", "fallback"})
        ELSE LET c == ParseSource(env.cmc)
             IN  IF c.res = "value" THEN Return(c.val, {"gecko", "cmc"})
                 ELSE Return(FALLBACK_ETH_PRICE, {"gecko", "cmc", "fallback"})

\* tenacity's @retry(stop=stop_after_attempt(3)): the body runs again while
\* it raises; after the third raise the decorator raises RetryError
RECURSIVE RetryEth(_, _, _)
RetryEth(hasKey, envs, i) ==
    LET r == EthAttempt(hasKey, envs[i])
    IN  IF ~r.raised THEN r
        ELSE IF i >= RETRY_ATTEMPTS THEN r
        ELSE RetryEth(hasKey, envs, i + 1)

get_eth_to_usd(hasKey, envs) == RetryEth(hasKey, envs, 1)

\* an address: its hex digits and the case of its letters
Address(hex, case) == [hex |-> hex, case |-> case]

\* str.lower()
Lower(a) == [a EXCEPT !.case = "lower"]

\* line 49: the default, written in mixed case
CONTRACT_ADDRESS == Address("pets", "mixed")

\* lines 263 / 300
Token0IsPets(token0) == Lower(token0) = Lower(CONTRACT_ADDRESS)

\* lines 260-273 / 297-310: the on-chain price from the pool's reserves
UniswapPrice(hasKey, uni, ethEnvs) ==
    IF uni.kind = "rpc_error" THEN PlainException
    ELSE LET is_pets_token0 == Token0IsPets(uni.token0)
             reserve_pets == IF is_pets_token0 THEN uni.reserves[1] ELSE uni.reserves[2]
             reserve_eth == IF is_pets_token0 THEN uni.reserves[2] ELSE uni.reserves[1]
             ratio == IF reserve_pets > 0 THEN DivInt(reserve_eth, reserve_pets)
                      ELSE Num(0, 0)
             eth_per_pets == IF reserve_pets > 0 THEN Num(ratio.m, ratio.e - 18)
                             ELSE Num(0, 0)
             eth == get_eth_to_usd(hasKey, ethEnvs)
         IN  IF eth.raised THEN PlainException
             ELSE LET price == Mul(eth_per_pets, eth.val)
                  IN  IF LeZero(price) THEN PlainException ELSE Value(price)

\* lines 259-276 / 296-313: the on-chain source, then the constant
UniswapOrFallback(hasKey, env, used) ==
    LET u == UniswapPrice(hasKey, env.uni, env.eth)
    IN  IF u.res = "value" THEN Return(u.val, used \cup {"uniswap"})
        ELSE Return(FALLBACK_PETS_PRICE, used \cup {"uniswap", "fallback"})

\* one execution of the body of get_pets_price_from_uniswap
PetsAttempt(hasKey, env) ==
    LET g == ParseSource(env.gecko)
    IN  IF g.res = "value" THEN Return(g.val, {"gecko"})
        ELSE IF g.res = "exception" THEN Raise({"gecko"})
        ELSE IF ~hasKey THEN UniswapOrFallback(hasKey, env, {"gecko"})
        ELSE LET c == ParseSource(env.cmc)
             IN  IF c.res = "value" THEN Return(c.val, {"gecko", "cmc"})
                 ELSE UniswapOrFallback(hasKey, env, {"gecko", "cmc"})

RECURSIVE RetryPets(_, _, _)
RetryPets(hasKey, envs, i) ==
    LET r == PetsAttempt(hasKey, envs[i])
    IN  IF ~r.raised THEN r
        ELSE IF i >= RETRY_ATTEMPTS THEN r
        ELSE RetryPets(hasKey, envs, i + 1)

get_pets_price_from_uniswap(hasKey, envs) == RetryPets(hasKey, envs, 1)

----------------------------------------------------------------------------
(* What the environment can answer *)

\* price fields a source can hold
PriceFields == {Missing, Garbage, NaN, Num(0, 0), Num(-1, 0), Num(5, 1)}

GeckoResponses == {HttpError} \cup {Payload(p) : p \in PriceFields}

CmcResponses == {HttpError} \cup {Payload(p) : p \in (PriceFields \ {Num(5, 1)}) \cup {Num(4, 1)}}

\* what token0() of the pair can return: the token or the other asset of
\* the pair, in any case of letters
Token0Answers ==
    {Address("pets", c) : c \in {"lower", "mixed", "upper"}}
    \cup {Address("weth", c) : c \in {"lower", "mixed"}}

RpcError == [kind |-> "rpc_error", reserves |-> <<0, 0>>, token0 |-> Address("weth", "lower")]

Reserves(r0, r1, t0) == [kind |-> "reserves", reserves |-> <<r0, r1>>, token0 |-> t0]

UniResponses ==
    {RpcError} \cup {Reserves(r[1], r[2], t0) : r \in {<<0, 6>>, <<2, 6>>, <<6, 0>>}, t0 \in Token0Answers}

EthEnv(g, c) == [gecko |-> g, cmc |-> c]

Same3(x) == <<x, x, x>>

\* the answers the nested get_eth_to_usd() of the on-chain source can meet
EthCallEnvs ==
    { Same3(EthEnv(Payload(Num(2500, 0)), HttpError)),
      Same3(EthEnv(HttpError, Payload(Num(2400, 0)))),
      Same3(EthEnv(HttpError, HttpError)),
      Same3(EthEnv(Payload(Num(0, 0)), HttpError)),
      Same3(EthEnv(Payload(NaN), HttpError)) }

PetsEnv(g, c, u, e) == [gecko |-> g, cmc |-> c, uni |-> u, eth |-> e]

----------------------------------------------------------------------------
(* State *)

VARIABLES
    COINMARKETCAP_API_KEY,   \* TRUE iff the key is configured (non-empty)
    pr,                      \* a price resolver call in progress, attempt by attempt
    fx,                      \* the last fetch_etherscan_transactions call made on its own
    call,                    \* the last application of a function on its own: name, argument, result
    chain,                   \* the watched address's transfers on chain: block of each, in mining order
    ledgerFile,              \* posted_transactions.txt, a sequence of lines
    posted_transactions,
    transaction_cache,
    last_block_number,       \* 0 models None
    last_transaction_hash,   \* 0 models None
    is_tracking_enabled,
    active_chats,
    monitoring_task,         \* "None" or "task"
    recent_errors,
    mon,                     \* the monitor_transactions task: position and locals
    stop_pc,                 \* the /stop handler: "idle", or "awaiting" the task it cancelled
    st,                      \* the /stats handler: position and locals
    videoSent,               \* history: successful video alerts per identifier
    sendFailed,              \* history: identifiers whose last emission by the running Monitor Loop failed
    textSent,                \* history: identifiers whose caption the running Monitor Loop sent as fallback text
    handed,                  \* history: identifiers handed to process_transaction in this cycle
    detached,                \* the monitor_transactions tasks still alive that monitoring_task has stopped referring to
    sv                       \* a send_video_with_retry call made on its own, step by step

vars == <<COINMARKETCAP_API_KEY, pr, fx, call, chain, ledgerFile, posted_transactions,
          transaction_cache, last_block_number, last_transaction_hash,
          is_tracking_enabled, active_chats, monitoring_task, recent_errors, mon,
          stop_pc, st, videoSent, sendFailed, textSent, handed, detached, sv>>

progVars == <<chain, ledgerFile, posted_transactions,
              transaction_cache, last_block_number, last_transaction_hash,
              is_tracking_enabled, active_chats, monitoring_task, recent_errors, mon,
              stop_pc, st, videoSent, sendFailed, textSent, handed, detached>>

----------------------------------------------------------------------------
(* The price resolvers, attempt by attempt *)

PrIdle == [fn |-> "none", status |-> "idle", attempt |-> 0, val |-> NaN,
           gecko |-> <<>>, cmc |-> Unconsulted, uni |-> RpcError, eth |-> <<>>,
           used |-> {}]

\* a caller invokes get_eth_to_usd(); the second source's answer is fixed
\* for the call (it is consulted at most once)
CallEth ==
    /\ pr.status = "idle"
    /\ \E c \in CmcResponses :
         pr' = [PrIdle EXCEPT !.fn = "eth", !.status = "running", !.attempt = 1,
                              !.cmc = IF COINMARKETCAP_API_KEY THEN c ELSE Unconsulted]
    /\ UNCHANGED <<sv, COINMARKETCAP_API_KEY, fx, call, progVars>>

CallPets ==
    /\ pr.status = "idle"
    /\ \E c \in CmcResponses, u \in UniResponses, e \in EthCallEnvs :
         pr' = [PrIdle EXCEPT !.fn = "pets", !.status = "running", !.attempt = 1,
                              !.cmc = IF COINMARKETCAP_API_KEY THEN c ELSE Unconsulted,
                              !.uni = u, !.eth = e]
    /\ UNCHANGED <<sv, COINMARKETCAP_API_KEY, fx, call, progVars>>

\* one attempt of the decorated function: the first source answers g
Attempt ==
    /\ pr.status = "running"
    /\ \E g \in GeckoResponses :
         LET r == IF pr.fn = "eth"
                  THEN EthAttempt(COINMARKETCAP_API_KEY, EthEnv(g, pr.cmc))
                  ELSE PetsAttempt(COINMARKETCAP_API_KEY, PetsEnv(g, pr.cmc, pr.uni, pr.eth))
         IN  pr' = [pr EXCEPT !.gecko = Append(@, g),
                              !.used = r.used,
                              !.val = r.val,
                              !.status = IF ~r.raised THEN "returned"
                                         ELSE IF pr.attempt >= RETRY_ATTEMPTS THEN "raised"
                                         ELSE "running",
                              !.attempt = IF r.raised /\ pr.attempt < RETRY_ATTEMPTS
                                          THEN @ + 1 ELSE @]
    /\ UNCHANGED <<sv, COINMARKETCAP_API_KEY, fx, call, progVars>>

\* the caller takes the result
Done ==
    /\ pr.status \in {"returned", "raised"}
    /\ pr' = PrIdle
    /\ UNCHANGED <<sv, COINMARKETCAP_API_KEY, fx, call, progVars>>

NextPrice == CallEth \/ CallPets \/ Attempt \/ Done

----------------------------------------------------------------------------
(* fetch_etherscan_transactions on its own: fx keeps what a call was given *)
(* and what it gave back.                                                  *)

\* no function has been applied on its own yet
NoCall == [fn |-> "none", arg |-> "", res |-> ""]

\* line 134, in milliseconds
TRANSACTION_CACHE_THRESHOLD == 2 * 60 * 1000

Minute == 60 * 1000

\* the clock of the isolated calls stops after this many minutes
MaxClock == 3

FxIdle == [called |-> FALSE, ok |-> TRUE, startblock |-> 0, raised |-> FALSE, ret |-> <<>>,
           cacheBefore |-> <<>>, lbnBefore |-> 0,
           http |-> TRUE, glitch |-> "none", wellFormed |-> <<>>, requested |-> FALSE,
           prevCalled |-> FALSE, prevOk |-> FALSE, prevStartblock |-> 0, prevRet |-> <<>>,
           now |-> Minute, last_transaction_fetch |-> 0, stampBefore |-> 0]

----------------------------------------------------------------------------
(* The chain and its transfers.  Transfer h is the h-th transfer the       *)
(* watched address sent; chain[h] is its block.                            *)

NumTx == 3

\* resolver failures met inside cycles, in all
MaxErrors == 1

MaxAlerts == 2

TX == 1..NumTx

\* raw token amount (18 decimals): 5, 50 and 49.999 tokens
TxValue(h) ==
    IF h % 3 = 1 THEN Num(5, 18)
    ELSE IF h % 3 = 2 THEN Num(5, 19)
    ELSE Num(49999, 15)

\* ETH value of the underlying transaction, in ETH; the first transfer
\* carries none
TxEthValue(h) == IF h = 1 THEN 0 ELSE 1

NoneEth == -1

Block(h) == chain[h]

Range(q) == {q[i] : i \in DOMAIN q}

Max(S) == CHOOSE x \in S : \A y \in S : y <= x

\* the explorer's answer, newest first ('sort': 'desc')
DescSeq(S) ==
    [i \in 1..Cardinality(S) |-> CHOOSE h \in S : Cardinality({g \in S : g > h}) = i - 1]

Upstream(startblock) == DescSeq({h \in DOMAIN chain : startblock = 0 \/ chain[h] >= startblock})

\* sorted(txs, key=lambda x: x['blockNumber'], reverse=True): stable
SortedDesc(q) ==
    LET before(j, k) == Block(q[j]) > Block(q[k]) \/ (Block(q[j]) = Block(q[k]) /\ j < k)
        rank(k) == Cardinality({j \in DOMAIN q : before(j, k)}) + 1
    IN  [i \in DOMAIN q |-> q[CHOOSE k \in DOMAIN q : rank(k) = i]]

----------------------------------------------------------------------------
(* Dedup ledger *)

\* a line that is empty once stripped
BlankLine == 0

\* a variant that keeps the blank lines
LoadKeepingBlanks(ioOK) == IF ioOK THEN Range(ledgerFile) ELSE {}

\* load_posted_transactions: the set of the stripped non-empty lines; a
\* missing file (no lines) or an unreadable one gives set()
load_posted_transactions(ioOK) == IF ioOK THEN Range(ledgerFile) \ {BlankLine} ELSE {}

\* a variant that opens the file for writing: the earlier lines are lost
LogRewriting(file, h, ioOK) == IF ioOK THEN <<h>> ELSE file

\* log_posted_transaction: append one line; a failed write is only logged
log_posted_transaction(file, h, ioOK) == IF ioOK THEN Append(file, h) ELSE file

----------------------------------------------------------------------------
(* fetch_etherscan_transactions(startblock): the new cache, the new        *)
(* last_block_number and the returned batch.  ok is the upstream outcome:  *)
(* FALSE for an HTTP failure, a malformed body, a status other than '1' or *)
(* a record that makes the list comprehension raise.  requested: the call  *)
(* sent an upstream request (line 462, unconditional); stamped: it set     *)
(* last_transaction_fetch (line 484).                                      *)

\* lines 446-447
EffectiveStartblock(startblock_arg) ==
    IF startblock_arg = 0 /\ last_block_number # 0
    THEN last_block_number + 1 ELSE startblock_arg

\* what one record of the response can look like besides a well-formed
\* transfer of the watched address
Glitches == {"none", "non_numeric_value", "missing_hash", "missing_field"}

\* lines 467-478: tx['value'].isdigit() drops a non-numeric amount; a
\* missing key raises KeyError out of the comprehension
ComprehensionOK(glitch) == glitch \in {"none", "non_numeric_value"}

\* lines 462-478: the try block gets through
ResponseOK(http, glitch) == http /\ ComprehensionOK(glitch)

\* a variant whose except clause lets the error through to the caller
FetchRaising(startblock_arg, ok) ==
    LET startblock == IF startblock_arg = 0 /\ last_block_number # 0
                      THEN last_block_number + 1 ELSE startblock_arg
        transactions == Upstream(startblock)
        lbn == IF transactions # <<>> /\ startblock = 0
               THEN Max({Block(transactions[i]) : i \in DOMAIN transactions})
               ELSE last_block_number
        keep(h) == lbn = 0 \/ Block(h) >= lbn
        cache == IF startblock = 0 THEN SelectSeq(transactions, keep) ELSE transaction_cache
    IN  IF ok
        THEN [ret |-> transactions, cache |-> cache, lbn |-> lbn, raised |-> FALSE,
              requested |-> TRUE, stamped |-> startblock = 0]
        ELSE [ret |-> <<>>, cache |-> transaction_cache,
              lbn |-> last_block_number, raised |-> TRUE,
              requested |-> TRUE, stamped |-> FALSE]

fetch_etherscan_transactions(startblock_arg, ok) ==
    LET startblock == IF startblock_arg = 0 /\ last_block_number # 0
                      THEN last_block_number + 1 ELSE startblock_arg
        transactions == Upstream(startblock)
        lbn == IF transactions # <<>> /\ startblock = 0
               THEN Max({Block(transactions[i]) : i \in DOMAIN transactions})
               ELSE last_block_number
        keep(h) == lbn = 0 \/ Block(h) >= lbn
        cache == IF startblock = 0 THEN SelectSeq(transactions, keep) ELSE transaction_cache
    IN  IF ok
        THEN [ret |-> transactions, cache |-> cache, lbn |-> lbn, raised |-> FALSE,
              requested |-> TRUE, stamped |-> startblock = 0]
        ELSE [ret |-> transaction_cache, cache |-> transaction_cache,
              lbn |-> last_block_number, raised |-> FALSE,
              requested |-> TRUE, stamped |-> FALSE]

----------------------------------------------------------------------------
(* Alerts *)

\* a variant whose comparisons are <= : a boundary value gets the lower tier
CategorizeInclusive(usd_value) ==
    IF LtInt(usd_value, BUY_THRESHOLD_SMALL + 1) THEN "MicroPets Buy"
    ELSE IF LtInt(usd_value, BUY_THRESHOLD_MEDIUM + 1) THEN "Medium Bullish Buy"
    ELSE IF LtInt(usd_value, BUY_THRESHOLD_LARGE + 1) THEN "Whale Buy"
    ELSE "Extra Large Buy"

categorize_buy(usd_value) ==
    IF LtInt(usd_value, BUY_THRESHOLD_SMALL) THEN "MicroPets Buy"
    ELSE IF LtInt(usd_value, BUY_THRESHOLD_MEDIUM) THEN "Medium Bullish Buy"
    ELSE IF LtInt(usd_value, BUY_THRESHOLD_LARGE) THEN "Whale Buy"
    ELSE "Extra Large Buy"

\* float(transaction['value']) / 1e18 * pets_price
UsdValue(h, pets_price) == Mul(Num(TxValue(h).m, TxValue(h).e - 18), pets_price)

\* lines 519-531 of process_transaction: the call reaches extract_market_cap
ReachesMarketCap(h, pets_price, eth_value, posted) ==
    /\ h \notin posted
    /\ ~(eth_value = NoneEth \/ eth_value <= 0)
    /\ ~LtInt(UsdValue(h, pets_price), MIN_USD)

\* line 305: a call of get_pets_price_from_uniswap that got the reserves of
\* the pool calls get_eth_to_usd
NestedEthCalls(r, env) ==
    IF "uniswap" \in r.used /\ env.uni.kind = "reserves" THEN 1 ELSE 0

\* a variant without the test of lines 523-525
ProcessPreIgnoringEth(h, pets_price, eth_value, posted) ==
    IF h \in posted THEN "skip"
    ELSE IF LtInt(UsdValue(h, pets_price), MIN_USD) THEN "skip"
    ELSE IF IsNaN(UsdValue(h, pets_price)) THEN "skip"
    ELSE "send"

\* process_transaction up to its await: "skip" (returns False without
\* sending) or "send".  int(usd_value) raises on NaN and the except clause
\* returns False.
ProcessPre(h, pets_price, eth_value, posted) ==
    IF h \in posted THEN "skip"
    ELSE IF eth_value = NoneEth \/ eth_value <= 0 THEN "skip"
    ELSE IF LtInt(UsdValue(h, pets_price), MIN_USD) THEN "skip"
    ELSE IF IsNaN(UsdValue(h, pets_price)) THEN "skip"
    ELSE "send"

\* send_video_with_retry: video[i] tells whether attempt i gets through,
\* textOK whether the fallback message does.  "video": returns True;
\* "text": fallback sent, returns False; "none": the fallback raised.
send_video_with_retry(video, textOK) ==
    IF \E i \in 1..MAX_RETRIES : video[i] THEN "video"
    ELSE IF textOK THEN "text"
    ELSE "none"

SendOutcomes == {send_video_with_retry(v, t) : v \in [1..MAX_RETRIES -> BOOLEAN], t \in BOOLEAN}

\* no send_video_with_retry call in progress
SvIdle == [pc |-> "idle", i |-> 0, attempts |-> 0, video_calls |-> 0, videos |-> 0,
           fallbacks |-> 0, texts |-> 0, errors |-> <<>>, ret |-> "none"]

\* a variant that writes the ledger whatever the send returned
MarkSeenAlways(outcome) == outcome \in SendOutcomes

\* lines 555-557: the ledger is written only when the send returned True
MarkSeen(outcome) == outcome = "video"

Bump(f, h) == [f EXCEPT ![h] = @ + 1]

----------------------------------------------------------------------------
(* Tasks.  asyncio runs one task at a time and switches only at an await   *)
(* that suspends: a step of one task is enabled only while the other is    *)
(* suspended.  A task just created runs before anything else.              *)

\* pets_calls and eth_calls count the calls of get_pets_price_from_uniswap
\* and of get_eth_to_usd made since the cycle began
MonNone == [pc |-> "none", txs |-> <<>>, idx |-> 0, pets_price |-> NaN, new_last_hash |-> 0,
            pets_calls |-> 0, eth_calls |-> 0]

MonAt(pc) == [MonNone EXCEPT !.pc = pc]

StIdle == [pc |-> "idle", txs |-> <<>>, idx |-> 0, pets_price |-> NaN, seen_hashes |-> {}]

\* the monitor is suspended and no /stop is waiting for it to end
MonSuspended == mon.pc \in {"none", "sleep", "send"} /\ stop_pc = "idle"

StSuspended == st.pc \in {"idle", "fetching", "send1", "send2", "sleep30"}

\* a variant that loses the error
RecordErrorDropped(errors, e) == errors

\* a variant that drops the second oldest entry of a full buffer
RecordErrorDropSecond(errors, e) ==
    LET a == Append(errors, e)
    IN  IF Len(a) > MAX_RECENT_ERRORS THEN <<a[1]>> \o SubSeq(a, 3, Len(a)) ELSE a

\* recent_errors.append(...); if len(recent_errors) > 5: recent_errors.pop(0)
RecordError(errors, e) ==
    LET a == Append(errors, e)
    IN  IF Len(a) > MAX_RECENT_ERRORS THEN Tail(a) ELSE a

\* what the resolvers can meet inside a cycle
CycleEthEnvs ==
    { Same3(EthEnv(Payload(Num(2500, 0)), HttpError)),
      Same3(EthEnv(Payload(Num(0, 0)), HttpError)) }

CyclePetsEnvs ==
    { Same3(PetsEnv(Payload(Num(5, 1)), HttpError, RpcError, Same3(EthEnv(HttpError, HttpError)))),
      Same3(PetsEnv(Payload(Num(1, 0)), HttpError, RpcError, Same3(EthEnv(HttpError, HttpError)))),
      Same3(PetsEnv(Payload(Missing), HttpError, RpcError, Same3(EthEnv(HttpError, HttpError)))) }

\* what the resolvers can meet inside a /stats replay
ReplayPetsEnvs ==
    { Same3(PetsEnv(Payload(Num(5, 1)), HttpError, RpcError, Same3(EthEnv(HttpError, HttpError)))),
      Same3(PetsEnv(Payload(Missing), HttpError, RpcError, Same3(EthEnv(HttpError, HttpError)))) }

\* a send may complete with this outcome (the history counters are capped)
Allowed(outcome, h) == outcome = "video" => videoSent[h] < MaxAlerts

histVars == <<videoSent, sendFailed, textSent>>


callVars == <<COINMARKETCAP_API_KEY, pr, fx, call, sv>>

\* what the steps of the tasks leave alone: the isolated calls, the /stop
\* handler and the chats
restVars == <<callVars, stop_pc, active_chats, detached>>

\* the isolated calls but the record of the last application
exceptCall == <<COINMARKETCAP_API_KEY, pr, fx, sv>>

(* Chats *)

ADMIN_CHAT_ID == "admin"

TELEGRAM_CHAT_ID == "group"

Chats == {ADMIN_CHAT_ID, TELEGRAM_CHAT_ID, "stranger"}

\* a variant that lets every chat through
is_admin_anyone(chat) == chat \in Chats

\* line 663
is_admin(chat) == chat = ADMIN_CHAT_ID

\* the commands whose handlers begin with the admin test
PrivilegedCommands == {"/track", "/stop", "/stats", "/status", "/debug", "/test", "/noV", "/help"}

\* lines 554-560 of process_transaction, once send_video_with_retry returned
ProcessPost(tx, outcome, ioOK) ==
    /\ Allowed(outcome, tx)
    /\ videoSent' = IF outcome = "video" THEN Bump(videoSent, tx) ELSE videoSent
    /\ IF MarkSeen(outcome)
       THEN /\ posted_transactions' = posted_transactions \cup {tx}
            /\ ledgerFile' = log_posted_transaction(ledgerFile, tx, ioOK)
       ELSE UNCHANGED <<posted_transactions, ledgerFile>>

(* monitor_transactions *)

\* the task resumes (first run, or a sleep is over) and tests the while
\* condition; leaving the loop resets monitoring_task
Wake ==
    /\ mon.pc \in {"created", "sleep"}
    /\ StSuspended
    /\ IF is_tracking_enabled
       THEN /\ mon' = MonAt("cycle")
            /\ UNCHANGED <<monitoring_task, handed>>
       ELSE /\ mon' = MonNone
            /\ monitoring_task' = "None"
            /\ UNCHANGED handed
    /\ UNCHANGED <<restVars, chain, ledgerFile, posted_transactions, transaction_cache,
                   last_block_number, last_transaction_hash, is_tracking_enabled,
                   recent_errors, st, histVars>>

\* Wake of the task monitoring_task refers to, while no /stop is waiting
MonitorWake == stop_pc = "idle" /\ monitoring_task = "task" /\ Wake

\* line 574
MonitorLoad ==
    /\ mon.pc = "cycle"
    /\ \E ioOK \in BOOLEAN :
         posted_transactions' = posted_transactions \cup load_posted_transactions(ioOK)
    /\ mon' = MonAt("fetch")
    /\ UNCHANGED <<restVars, chain, ledgerFile, transaction_cache, last_block_number,
                   last_transaction_hash, is_tracking_enabled, monitoring_task,
                   recent_errors, st, histVars, handed>>

\* lines 575-579
MonitorFetch ==
    /\ mon.pc = "fetch"
    /\ \E ok \in BOOLEAN :
         LET f == fetch_etherscan_transactions(
                      IF last_block_number # 0 THEN last_block_number + 1 ELSE 0, ok)
         IN  /\ transaction_cache' = f.cache
             /\ last_block_number' = f.lbn
             /\ mon' = IF f.raised \/ f.ret = <<>> THEN MonAt("sleep")
                       ELSE [MonAt("prices") EXCEPT !.txs = f.ret]
             /\ recent_errors' = IF f.raised THEN RecordError(recent_errors, "fetch")
                                  ELSE recent_errors
    /\ UNCHANGED <<restVars, chain, ledgerFile, posted_transactions,
                   last_transaction_hash, is_tracking_enabled, monitoring_task,
                   st, histVars, handed>>

\* lines 580-583, and 599-604 when a resolver raises, for the answers the
\* resolvers can meet; an error is recorded while there are fewer than limit
PricesResolved(limit, eth_to_usd_rate, pets_price, env) ==
    IF eth_to_usd_rate.raised \/ pets_price.raised
    THEN /\ Len(recent_errors) < limit
         /\ recent_errors' = RecordError(recent_errors, "RetryError")
         /\ mon' = MonAt("sleep")
    ELSE /\ mon' = [pc |-> "loop", txs |-> SortedDesc(mon.txs), idx |-> 1,
                    pets_price |-> pets_price.val,
                    new_last_hash |-> last_transaction_hash,
                    pets_calls |-> 1,
                    eth_calls |-> 1 + NestedEthCalls(pets_price, env)]
         /\ UNCHANGED recent_errors

\* line 580 awaits the two resolvers, which meet the answers drawn here
PricesStep(limit, ethEnvs, petsEnvs) ==
    /\ mon.pc = "prices"
    /\ \E ee \in ethEnvs, pe \in petsEnvs :
         PricesResolved(limit, get_eth_to_usd(COINMARKETCAP_API_KEY, ee),
                        get_pets_price_from_uniswap(COINMARKETCAP_API_KEY, pe), pe[1])
    /\ UNCHANGED <<restVars, chain, ledgerFile, posted_transactions, transaction_cache,
                   last_block_number, last_transaction_hash, is_tracking_enabled,
                   monitoring_task, st, histVars, handed>>

MonitorPrices == PricesStep(MaxErrors, CycleEthEnvs, CyclePetsEnvs)

\* lines 583-594 and 598: one iteration of the for loop up to the call of
\* process_transaction, or the end of the loop
MonitorLoop ==
    /\ mon.pc = "loop"
    /\ IF mon.idx > Len(mon.txs)
       THEN /\ last_transaction_hash' = mon.new_last_hash
            /\ mon' = MonAt("sleep")
            /\ handed' = <<>>
       ELSE LET tx == mon.txs[mon.idx]
            IN  /\ UNCHANGED last_transaction_hash
                /\ IF \/ tx \in posted_transactions
                      \/ (last_transaction_hash # 0 /\ tx = last_transaction_hash)
                      \/ (last_block_number # 0 /\ Block(tx) <= last_block_number)
                   THEN /\ mon' = [mon EXCEPT !.idx = @ + 1]
                        /\ UNCHANGED handed
                   ELSE /\ mon' = [mon EXCEPT !.pc = "process"]
                        /\ handed' = Append(handed, tx)
    /\ UNCHANGED <<restVars, chain, ledgerFile, posted_transactions, transaction_cache,
                   last_block_number, is_tracking_enabled, monitoring_task,
                   recent_errors, st, histVars>>

\* lines 519-553 of process_transaction, called at line 595; extract_market_cap
\* (line 531) calls get_pets_price_from_uniswap again (line 340)
Processed(tx, eth_value, nested) ==
    LET called == ReachesMarketCap(tx, mon.pets_price, eth_value, posted_transactions)
        send == ProcessPre(tx, mon.pets_price, eth_value, posted_transactions) = "send"
    IN  [mon EXCEPT !.pets_calls = IF called THEN @ + 1 ELSE @,
                    !.eth_calls = IF called THEN @ + nested ELSE @,
                    !.pc = IF send THEN "send" ELSE "loop",
                    !.idx = IF send THEN @ ELSE @ + 1]

\* line 595: process_transaction up to the call of send_video_with_retry
MonitorProcess ==
    /\ mon.pc = "process"
    /\ \E lookupOK \in BOOLEAN, pe \in CyclePetsEnvs :
         mon' = Processed(mon.txs[mon.idx],
                          IF lookupOK THEN TxEthValue(mon.txs[mon.idx]) ELSE NoneEth,
                          NestedEthCalls(get_pets_price_from_uniswap(COINMARKETCAP_API_KEY, pe),
                                         pe[1]))
    /\ UNCHANGED <<restVars, chain, ledgerFile, posted_transactions, transaction_cache,
                   last_block_number, last_transaction_hash, is_tracking_enabled,
                   monitoring_task, recent_errors, st, histVars, handed>>

\* a variant of line 597 that leaves last_block_number where it was
AdvancedBlockNever(lbn, blockNumber) == lbn

\* line 597: max(last_block_number or 0, tx['blockNumber'])
AdvancedBlock(lbn, blockNumber) == Max({lbn, blockNumber})

\* send_video_with_retry returns; lines 555-560, then 596-597
MonitorSendDone ==
    /\ mon.pc = "send"
    /\ StSuspended
    /\ \E outcome \in SendOutcomes, ioOK \in BOOLEAN :
         LET tx == mon.txs[mon.idx]
         IN  /\ ProcessPost(tx, outcome, ioOK)
             /\ IF outcome = "video"
                THEN /\ mon' = [mon EXCEPT !.pc = "loop", !.idx = @ + 1, !.new_last_hash = tx]
                     /\ last_block_number' = AdvancedBlock(last_block_number, Block(tx))
                     /\ sendFailed' = sendFailed \ {tx}
                     /\ UNCHANGED textSent
                ELSE /\ mon' = [mon EXCEPT !.pc = "loop", !.idx = @ + 1]
                     /\ sendFailed' = sendFailed \cup {tx}
                     /\ textSent' = IF outcome = "text" THEN textSent \cup {tx} ELSE textSent
                     /\ UNCHANGED last_block_number
    /\ UNCHANGED <<restVars, chain, transaction_cache, last_transaction_hash,
                   is_tracking_enabled, monitoring_task, recent_errors, st, handed>>

(* /stats *)

\* the replay window of /stats starts at a block below every model block
StatsStartBlock == 1

\* lines 703-707: the admin check and the first message
StatsStartFrom(chat) ==
    /\ is_admin(chat)
    /\ st.pc = "idle"
    /\ MonSuspended
    /\ st' = [StIdle EXCEPT !.pc = "fetching"]
    /\ UNCHANGED <<exceptCall, stop_pc, active_chats, chain, ledgerFile, posted_transactions, transaction_cache,
                   last_block_number, last_transaction_hash, is_tracking_enabled,
                   monitoring_task, recent_errors, mon, histVars, handed, detached>>

StatsStart == \E chat \in Chats : StatsStartFrom(chat) /\ UNCHANGED call

\* lines 708-735: latest block, fetch, prices; any exception ends the command
StatsFetch ==
    /\ st.pc = "fetching"
    /\ MonSuspended
    /\ \E blockOK \in BOOLEAN, ok \in BOOLEAN, ee \in CycleEthEnvs, pe \in ReplayPetsEnvs :
         LET f == fetch_etherscan_transactions(StatsStartBlock, ok)
             eth_to_usd_rate == get_eth_to_usd(COINMARKETCAP_API_KEY, ee)
             pets_price == get_pets_price_from_uniswap(COINMARKETCAP_API_KEY, pe)
         IN  IF ~blockOK
             THEN /\ st' = StIdle
                  /\ UNCHANGED <<transaction_cache, last_block_number>>
             ELSE /\ transaction_cache' = f.cache
                  /\ last_block_number' = f.lbn
                  /\ st' = IF f.raised \/ f.ret = <<>> \/ eth_to_usd_rate.raised
                              \/ pets_price.raised
                           THEN StIdle
                           ELSE [pc |-> "loop", txs |-> SortedDesc(f.ret), idx |-> 1,
                                 pets_price |-> pets_price.val, seen_hashes |-> {}]
    /\ UNCHANGED <<restVars, chain, ledgerFile, posted_transactions,
                   last_transaction_hash, is_tracking_enabled,
                   monitoring_task, recent_errors, mon, histVars, handed>>

\* lines 735-741 and 748-756
StatsLoop ==
    /\ st.pc = "loop"
    /\ st' = IF st.idx > Len(st.txs) THEN StIdle
             ELSE IF st.txs[st.idx] \in st.seen_hashes \/ st.txs[st.idx] \in posted_transactions
             THEN [st EXCEPT !.idx = @ + 1]
             ELSE [st EXCEPT !.pc = "process1"]
    /\ UNCHANGED <<restVars, chain, ledgerFile, posted_transactions, transaction_cache,
                   last_block_number, last_transaction_hash, is_tracking_enabled,
                   monitoring_task, recent_errors, mon, histVars, handed>>

\* line 742: process_transaction(..., chat_id=TELEGRAM_CHAT_ID) up to its await
StatsProcess1 ==
    /\ st.pc = "process1"
    /\ \E lookupOK \in BOOLEAN :
         LET tx == st.txs[st.idx]
             eth_value == IF lookupOK THEN TxEthValue(tx) ELSE NoneEth
         IN  st' = IF ProcessPre(tx, st.pets_price, eth_value, posted_transactions) = "send"
                   THEN [st EXCEPT !.pc = "send1"]
                   ELSE [st EXCEPT !.pc = "process2"]
    /\ UNCHANGED <<restVars, chain, ledgerFile, posted_transactions, transaction_cache,
                   last_block_number, last_transaction_hash, is_tracking_enabled,
                   monitoring_task, recent_errors, mon, histVars, handed>>

StatsSend1Done ==
    /\ st.pc = "send1"
    /\ MonSuspended
    /\ \E outcome \in SendOutcomes, ioOK \in BOOLEAN :
         ProcessPost(st.txs[st.idx], outcome, ioOK)
    /\ st' = [st EXCEPT !.pc = "process2"]
    /\ UNCHANGED <<restVars, chain, transaction_cache, last_block_number,
                   last_transaction_hash, is_tracking_enabled, monitoring_task,
                   recent_errors, mon, sendFailed, textSent, handed>>

\* line 744: process_transaction(..., chat_id=ADMIN_CHAT_ID) up to its await
StatsProcess2 ==
    /\ st.pc = "process2"
    /\ \E lookupOK \in BOOLEAN :
         LET tx == st.txs[st.idx]
             eth_value == IF lookupOK THEN TxEthValue(tx) ELSE NoneEth
         IN  st' = IF ProcessPre(tx, st.pets_price, eth_value, posted_transactions) = "send"
                   THEN [st EXCEPT !.pc = "send2"]
                   ELSE [st EXCEPT !.pc = "sleep30", !.seen_hashes = @ \cup {tx}]
    /\ UNCHANGED <<restVars, chain, ledgerFile, posted_transactions, transaction_cache,
                   last_block_number, last_transaction_hash, is_tracking_enabled,
                   monitoring_task, recent_errors, mon, histVars, handed>>

StatsSend2Done ==
    /\ st.pc = "send2"
    /\ MonSuspended
    /\ \E outcome \in SendOutcomes, ioOK \in BOOLEAN :
         ProcessPost(st.txs[st.idx], outcome, ioOK)
    /\ st' = [st EXCEPT !.pc = "sleep30", !.seen_hashes = @ \cup {st.txs[st.idx]}]
    /\ UNCHANGED <<restVars, chain, transaction_cache, last_block_number,
                   last_transaction_hash, is_tracking_enabled, monitoring_task,
                   recent_errors, mon, sendFailed, textSent, handed>>

\* line 747
StatsSleepDone ==
    /\ st.pc = "sleep30"
    /\ MonSuspended
    /\ st' = [st EXCEPT !.pc = "loop", !.idx = @ + 1]
    /\ UNCHANGED <<restVars, chain, ledgerFile, posted_transactions, transaction_cache,
                   last_block_number, last_transaction_hash, is_tracking_enabled,
                   monitoring_task, recent_errors, mon, histVars, handed>>

(* /track, /stop, the chain, the process *)

Quiet == MonSuspended /\ StSuspended

\* at most this many tasks are alive without monitoring_task referring to them
MaxDetached == 2

\* lines 677-683, from the admin chat; its update can be processed while a
\* /stop of another webhook request is suspended at line 695.  The task
\* created becomes mon, the one monitoring_task refers to; a task that is
\* still alive stays alive, detached.
TrackFrom(chat) ==
    /\ is_admin(chat)
    /\ mon.pc \in {"none", "sleep", "send"}
    /\ StSuspended
    /\ ~(is_tracking_enabled /\ monitoring_task # "None")
    /\ is_tracking_enabled' = TRUE
    /\ active_chats' = active_chats \cup {chat}
    /\ monitoring_task' = "task"
    /\ mon' = MonAt("created")
    /\ IF mon.pc = "none" THEN UNCHANGED detached
       ELSE Len(detached) < MaxDetached /\ detached' = Append(detached, mon)
    /\ UNCHANGED <<exceptCall, stop_pc, chain, ledgerFile, posted_transactions, transaction_cache,
                   last_block_number, last_transaction_hash, recent_errors, st,
                   histVars, handed>>

Track == \E chat \in Chats : TrackFrom(chat) /\ UNCHANGED call

\* lines 691-695, from the admin chat: the task is cancelled where it is
\* suspended and the handler awaits it; without a task it runs on to line
\* 699
StopFrom(chat) ==
    /\ is_admin(chat)
    /\ Quiet
    /\ is_tracking_enabled' = FALSE
    /\ IF monitoring_task # "None"
       THEN mon' = MonNone /\ stop_pc' = "awaiting" /\ UNCHANGED active_chats
       ELSE /\ active_chats' = active_chats \ {chat}
            /\ UNCHANGED <<mon, stop_pc>>
    /\ handed' = <<>>
    /\ sendFailed' = {}
    /\ textSent' = {}
    /\ UNCHANGED <<exceptCall, monitoring_task, chain, ledgerFile, posted_transactions, transaction_cache,
                   last_block_number, last_transaction_hash, recent_errors, st,
                   videoSent, detached>>

Stop == \E chat \in Chats : StopFrom(chat) /\ UNCHANGED call

\* lines 696-700: the cancelled task is over and the /stop handler (of the
\* admin chat) resumes
StopResume ==
    /\ stop_pc = "awaiting"
    /\ stop_pc' = "idle"
    /\ monitoring_task' = "None"
    /\ active_chats' = active_chats \ {ADMIN_CHAT_ID}
    /\ UNCHANGED <<callVars, chain, ledgerFile, posted_transactions, transaction_cache,
                   last_block_number, last_transaction_hash, is_tracking_enabled,
                   recent_errors, mon, st, histVars, handed, detached>>

\* the watched address sends one more transfer, in the head block or a new one
NextBlocks == IF chain = <<>> THEN {1} ELSE {chain[Len(chain)], chain[Len(chain)] + 1}

Mine ==
    /\ Quiet
    /\ Len(chain) < NumTx
    /\ \E b \in NextBlocks : chain' = Append(chain, b)
    /\ UNCHANGED <<restVars, ledgerFile, posted_transactions, transaction_cache,
                   last_block_number, last_transaction_hash, is_tracking_enabled,
                   monitoring_task, recent_errors, mon, st, histVars, handed>>

\* the process is restarted: lines 127-137 and lifespan (line 950) run again,
\* posted_transactions.txt stays
Restart ==
    /\ Quiet
    /\ posted_transactions' = {}
    /\ transaction_cache' = <<>>
    /\ last_block_number' = 0
    /\ last_transaction_hash' = 0
    /\ is_tracking_enabled' = FALSE
    /\ monitoring_task' = "task"
    /\ recent_errors' = <<>>
    /\ mon' = MonAt("created")
    /\ st' = StIdle
    /\ handed' = <<>>
    /\ sendFailed' = {}
    /\ textSent' = {}
    /\ stop_pc' = "idle"
    /\ active_chats' = {TELEGRAM_CHAT_ID}
    /\ detached' = <<>>
    /\ UNCHANGED <<callVars, chain, ledgerFile, videoSent>>

\* the state once the module is loaded and lifespan has created the task
Loaded ==
    /\ pr = PrIdle
    /\ fx = FxIdle
    /\ call = NoCall
    /\ chain = <<>>
    /\ ledgerFile = <<>>
    /\ posted_transactions = {}
    /\ transaction_cache = <<>>
    /\ last_block_number = 0
    /\ last_transaction_hash = 0
    /\ is_tracking_enabled = FALSE
    /\ active_chats = {TELEGRAM_CHAT_ID}
    /\ monitoring_task = "task"
    /\ recent_errors = <<>>
    /\ mon = MonAt("created")
    /\ stop_pc = "idle"
    /\ st = StIdle
    /\ videoSent = [h \in TX |-> 0]
    /\ sendFailed = {}
    /\ textSent = {}
    /\ handed = <<>>
    /\ detached = <<>>
    /\ sv = SvIdle

\* COINMARKETCAP_API_KEY defaults to '' (line 53)
Init == COINMARKETCAP_API_KEY = FALSE /\ Loaded

InitPrice == COINMARKETCAP_API_KEY \in BOOLEAN /\ Loaded

Next ==
    \/ MonitorWake \/ MonitorLoad \/ MonitorFetch \/ MonitorPrices
    \/ MonitorLoop \/ MonitorProcess \/ MonitorSendDone
    \/ StatsStart \/ StatsFetch \/ StatsLoop \/ StatsProcess1 \/ StatsSend1Done
    \/ StatsProcess2 \/ StatsSend2Done \/ StatsSleepDone
    \/ Track \/ Stop \/ StopResume \/ Mine \/ Restart

Spec == Init /\ [][Next]_vars

\* a caller other than the tasks above fetches, with or without a starting block
FetchCall ==
    \E startblock \in 0..(NumTx + 1), http \in BOOLEAN, glitch \in Glitches :
        LET ok == ResponseOK(http, glitch)
            f == fetch_etherscan_transactions(startblock, ok)
        IN  /\ fx' = [called |-> TRUE, ok |-> ok, startblock |-> startblock,
                      raised |-> f.raised, ret |-> f.ret,
                      cacheBefore |-> transaction_cache, lbnBefore |-> last_block_number,
                      http |-> http, glitch |-> glitch,
                      wellFormed |-> Upstream(EffectiveStartblock(startblock)),
                      requested |-> f.requested,
                      prevCalled |-> fx.called, prevOk |-> fx.ok,
                      prevStartblock |-> fx.startblock, prevRet |-> fx.ret,
                      now |-> fx.now,
                      last_transaction_fetch |-> IF f.stamped THEN fx.now
                                                 ELSE fx.last_transaction_fetch,
                      stampBefore |-> fx.last_transaction_fetch]
            /\ transaction_cache' = f.cache
            /\ last_block_number' = f.lbn
            /\ UNCHANGED <<sv, COINMARKETCAP_API_KEY, pr, call, chain, ledgerFile, posted_transactions,
                           last_transaction_hash, is_tracking_enabled, active_chats,
                           monitoring_task, recent_errors, mon, stop_pc, st, histVars,
                           handed, detached>>

ChainGrows ==
    /\ Len(chain) < NumTx
    /\ \E b \in NextBlocks : chain' = Append(chain, b)
    /\ UNCHANGED <<restVars, ledgerFile, posted_transactions, transaction_cache,
                   last_block_number, last_transaction_hash, is_tracking_enabled,
                   monitoring_task, recent_errors, mon, st, histVars, handed>>

\* a minute goes by between two calls
TimePasses ==
    /\ fx.now < MaxClock * Minute
    /\ fx' = [fx EXCEPT !.now = @ + Minute]
    /\ UNCHANGED <<sv, COINMARKETCAP_API_KEY, pr, call, progVars>>

NextFetch == FetchCall \/ ChainGrows \/ TimePasses

SpecFetch == Init /\ [][NextFetch]_vars

SpecPrice == InitPrice /\ [][NextPrice]_vars

----------------------------------------------------------------------------
(* recent_errors, written by the Monitor Loop and by the webhook *)

\* a first source that answers a price of 0 three times: get_eth_to_usd
\* raises RetryError
FailingEthEnvs == { Same3(EthEnv(Payload(Num(0, 0)), HttpError)) }

\* lines 580 and 599-604: the cycle whose ETH resolver raises, whatever the
\* number of errors recorded so far
FailingPrices == PricesStep(MAX_RECENT_ERRORS + 1, FailingEthEnvs, CyclePetsEnvs)

\* lines 934-939: the webhook handler catches an exception (a body that is
\* not JSON, a failing dispatch) and records it
WebhookError ==
    /\ recent_errors' = RecordError(recent_errors, "Webhook error")
    /\ call' = [fn |-> "webhook",
                arg |-> IF Len(recent_errors) = MAX_RECENT_ERRORS THEN "full" ELSE "room",
                res |-> "Webhook failed"]
    /\ UNCHANGED <<exceptCall, stop_pc, active_chats, chain, ledgerFile, posted_transactions,
                   transaction_cache, last_block_number, last_transaction_hash,
                   is_tracking_enabled, monitoring_task, mon, st, histVars, handed, detached>>

NextErrors ==
    \/ Track \/ Mine \/ MonitorWake \/ MonitorLoad \/ MonitorFetch \/ FailingPrices
    \/ WebhookError

SpecErrors == Init /\ [][NextErrors]_vars

----------------------------------------------------------------------------
(* Several monitor_transactions tasks *)

\* q without its i-th element
Remove(q, i) == SubSeq(q, 1, i - 1) \o SubSeq(q, i + 1, Len(q))

\* a detached task resumes while the others are suspended and tests the while
\* condition (lines 568-606): it leaves the loop and resets monitoring_task,
\* or runs a cycle whose fetch brings nothing and sleeps again
DetachedWake ==
    /\ mon.pc \in {"none", "created", "sleep", "send"}
    /\ StSuspended
    /\ \E i \in DOMAIN detached :
         /\ detached[i].pc \in {"created", "sleep"}
         /\ IF ~is_tracking_enabled
            THEN /\ detached' = Remove(detached, i)
                 /\ monitoring_task' = "None"
                 /\ UNCHANGED <<posted_transactions, transaction_cache,
                                last_block_number, recent_errors>>
            ELSE \E ioOK \in BOOLEAN, ok \in BOOLEAN :
                   LET f == fetch_etherscan_transactions(
                                IF last_block_number # 0 THEN last_block_number + 1 ELSE 0, ok)
                   IN  /\ f.raised \/ f.ret = <<>>
                       /\ posted_transactions' =
                              posted_transactions \cup load_posted_transactions(ioOK)
                       /\ transaction_cache' = f.cache
                       /\ last_block_number' = f.lbn
                       /\ recent_errors' = IF f.raised THEN RecordError(recent_errors, "fetch")
                                            ELSE recent_errors
                       /\ detached' = [detached EXCEPT ![i] = MonAt("sleep")]
                       /\ UNCHANGED monitoring_task
    /\ UNCHANGED <<callVars, stop_pc, active_chats, chain, ledgerFile, last_transaction_hash,
                   is_tracking_enabled, mon, st, histVars, handed>>


----------------------------------------------------------------------------
(* The command handlers, called from any chat; call keeps the command, the *)
(* chat and the reply.                                                     *)

CmdTrack ==
    \E chat \in Chats :
        /\ TrackFrom(chat)
        /\ call' = [fn |-> "/track", arg |-> chat, res |-> "Tracking started"]

CmdStop ==
    \E chat \in Chats :
        /\ StopFrom(chat)
        /\ call' = [fn |-> "/stop", arg |-> chat, res |-> "Stopped"]

CmdStats ==
    \E chat \in Chats :
        /\ StatsStartFrom(chat)
        /\ call' = [fn |-> "/stats", arg |-> chat, res |-> "Fetching"]

\* /status, /debug, /test, /noV, /help from the admin chat: they read the
\* state and answer
CmdReadOnly ==
    \E cmd \in {"/status", "/debug", "/test", "/noV", "/help"}, chat \in Chats :
        /\ is_admin(chat)
        /\ call' = [fn |-> cmd, arg |-> chat, res |-> "Answered"]
        /\ UNCHANGED <<exceptCall, progVars>>

\* lines 666-669: /start, open to every chat
CmdStart ==
    \E chat \in Chats :
        /\ active_chats' = active_chats \cup {chat}
        /\ call' = [fn |-> "/start", arg |-> chat, res |-> "Welcome"]
        /\ UNCHANGED <<exceptCall, stop_pc, chain, ledgerFile, posted_transactions,
                       transaction_cache, last_block_number, last_transaction_hash,
                       is_tracking_enabled, monitoring_task, recent_errors, mon, st,
                       histVars, handed, detached>>

\* the first lines of every privileged handler, from a chat that is not
\* the admin's
Unauthorized ==
    \E cmd \in PrivilegedCommands, chat \in Chats :
        /\ ~is_admin(chat)
        /\ call' = [fn |-> cmd, arg |-> chat, res |-> "Unauthorized"]
        /\ UNCHANGED <<exceptCall, progVars>>

\* the commands and the tasks while the watched address sends nothing
NextCommands ==
    \/ CmdTrack \/ CmdStop \/ CmdStats \/ CmdReadOnly \/ CmdStart \/ Unauthorized
    \/ StopResume \/ Wake \/ MonitorLoad \/ MonitorFetch \/ StatsFetch \/ DetachedWake

SpecCommands == Init /\ [][NextCommands]_vars

----------------------------------------------------------------------------
(* Functions applied on their own *)

\* the file is edited from outside up to this many lines
MaxLines == 3

\* a line is added to posted_transactions.txt by hand or by an earlier run:
\* an identifier (again, perhaps) or a blank line
FileEdited ==
    /\ Len(ledgerFile) < MaxLines
    /\ \E line \in TX \cup {BlankLine} : ledgerFile' = Append(ledgerFile, line)
    /\ UNCHANGED <<restVars, chain, posted_transactions, transaction_cache,
                   last_block_number, last_transaction_hash, is_tracking_enabled,
                   monitoring_task, recent_errors, mon, st, histVars, handed>>

\* line 574: posted_transactions.update(load_posted_transactions())
Merge ==
    /\ \E ioOK \in BOOLEAN :
         /\ posted_transactions' = posted_transactions \cup load_posted_transactions(ioOK)
         /\ call' = [fn |-> "load_posted_transactions",
                     arg |-> IF ioOK THEN "readable" ELSE "unreadable",
                     res |-> "merged"]
    /\ UNCHANGED <<exceptCall, stop_pc, active_chats, chain, ledgerFile, transaction_cache,
                   last_block_number, last_transaction_hash, is_tracking_enabled,
                   monitoring_task, recent_errors, mon, st, histVars, handed, detached>>

SpecLedger == Init /\ [][FileEdited \/ Merge]_vars

----------------------------------------------------------------------------
(* Start of the process: lines 43-83 and 141-149 *)

\* os.getenv gives None for a variable that is not set
None == "None"
ValidAddress == "0x98b794be9c4f49900c6193aaff20876e1f36043e"
InvalidAddress == "0x123"

\* os.getenv(name, default)
Getenv(value, default) == IF value = None THEN default ELSE value

\* the environments the process is started in
Environments ==
    [TELEGRAM_BOT_TOKEN : {None, "token"},
     CLOUDINARY_CLOUD_NAME : {None, "cloud"},
     RAILWAY_PUBLIC_DOMAIN : {None, "", "app.up.railway.app"},
     APP_URL : {None, "", "app.example.org"},
     ETHERSCAN_API_KEY : {None, "key"},
     INFURA_URL : {None, "https://infura"},
     CONTRACT_ADDRESS : {None, "", ValidAddress, InvalidAddress},
     ADMIN_USER_ID : {None, "1"},
     TELEGRAM_CHAT_ID : {None, "-100"},
     COINMARKETCAP_API_KEY : {None, "cmc"},
     TARGET_ADDRESS : {None, "", ValidAddress, InvalidAddress},
     is_connected : BOOLEAN]

\* lines 44-54: the module's settings
Settings(env) ==
    [TELEGRAM_BOT_TOKEN |-> env.TELEGRAM_BOT_TOKEN,
     CLOUDINARY_CLOUD_NAME |-> env.CLOUDINARY_CLOUD_NAME,
     APP_URL |-> Getenv(env.RAILWAY_PUBLIC_DOMAIN, env.APP_URL),
     ETHERSCAN_API_KEY |-> env.ETHERSCAN_API_KEY,
     INFURA_URL |-> env.INFURA_URL,
     CONTRACT_ADDRESS |-> Getenv(env.CONTRACT_ADDRESS, ValidAddress),
     ADMIN_CHAT_ID |-> env.ADMIN_USER_ID,
     TELEGRAM_CHAT_ID |-> env.TELEGRAM_CHAT_ID,
     COINMARKETCAP_API_KEY |-> Getenv(env.COINMARKETCAP_API_KEY, ""),
     TARGET_ADDRESS |-> Getenv(env.TARGET_ADDRESS, ValidAddress)]

\* the settings lines 59-72 look at
RequiredSettings ==
    {"TELEGRAM_BOT_TOKEN", "CLOUDINARY_CLOUD_NAME", "APP_URL", "ETHERSCAN_API_KEY",
     "INFURA_URL", "CONTRACT_ADDRESS", "ADMIN_CHAT_ID", "TELEGRAM_CHAT_ID",
     "TARGET_ADDRESS"}

\* a variant that does not look at TELEGRAM_CHAT_ID
missing_vars_but_chat(settings) ==
    {name \in RequiredSettings \ {"TELEGRAM_CHAT_ID"} : settings[name] \in {None, ""}}

\* lines 58-72: the settings that are None or empty
missing_vars(settings) == {name \in RequiredSettings : settings[name] \in {None, ""}}

\* Web3.is_address
is_address(addr) == addr = ValidAddress

\* what the import of the module ends in
startup(env) ==
    LET settings == Settings(env)
    IN  IF missing_vars(settings) # {}
          THEN "ValueError: Missing required environment variables"
        ELSE IF \E name \in {"CONTRACT_ADDRESS", "TARGET_ADDRESS"} : ~is_address(settings[name])
          THEN "ValueError: Invalid Ethereum address"
        ELSE IF ~env.is_connected
          THEN "ValueError: Web3 connection to Infura failed"
        ELSE "serving"

\* the state before the module is imported: no task, no tracking
Unloaded ==
    /\ COINMARKETCAP_API_KEY = FALSE
    /\ pr = PrIdle
    /\ fx = FxIdle
    /\ call = NoCall
    /\ chain = <<>>
    /\ ledgerFile = <<>>
    /\ posted_transactions = {}
    /\ transaction_cache = <<>>
    /\ last_block_number = 0
    /\ last_transaction_hash = 0
    /\ is_tracking_enabled = FALSE
    /\ active_chats = {TELEGRAM_CHAT_ID}
    /\ monitoring_task = "None"
    /\ recent_errors = <<>>
    /\ mon = MonNone
    /\ stop_pc = "idle"
    /\ st = StIdle
    /\ videoSent = [h \in TX |-> 0]
    /\ sendFailed = {}
    /\ textSent = {}
    /\ handed = <<>>
    /\ detached = <<>>
    /\ sv = SvIdle

\* the process is started: the module is imported and, when the import does
\* not raise, lifespan creates the monitoring task
Startup ==
    /\ call.fn = "none"
    /\ \E env \in Environments :
         /\ call' = [fn |-> "startup", arg |-> env, res |-> startup(env)]
         /\ COINMARKETCAP_API_KEY' = (Settings(env).COINMARKETCAP_API_KEY # "")
         /\ IF startup(env) = "serving"
            THEN monitoring_task' = "task" /\ mon' = MonAt("created")
            ELSE UNCHANGED <<monitoring_task, mon>>
    /\ UNCHANGED <<sv, pr, fx, stop_pc, active_chats, chain, ledgerFile, posted_transactions,
                   transaction_cache, last_block_number, last_transaction_hash,
                   is_tracking_enabled, recent_errors, st, histVars, handed, detached>>

\* the task of the process that serves runs
ServeWake == call.fn = "startup" /\ call.res = "serving" /\ MonitorWake

\* the process that serves takes /track
ServeTrack ==
    /\ call.fn = "startup" /\ call.res = "serving"
    /\ \E chat \in Chats : TrackFrom(chat)
    /\ UNCHANGED call

SpecStartup == Unloaded /\ [][Startup \/ ServeWake \/ ServeTrack]_vars

\* USD values up to this many dollars
MaxUsd == 1001

\* whole dollars, and the values a tenth below each threshold
UsdGrid ==
    {Num(m, 0) : m \in 0..MaxUsd}
    \cup {Num(10 * t - 1, -1) : t \in {BUY_THRESHOLD_SMALL, BUY_THRESHOLD_MEDIUM, BUY_THRESHOLD_LARGE}}

Categorize ==
    /\ \E usd_value \in UsdGrid :
         call' = [fn |-> "categorize_buy", arg |-> usd_value, res |-> categorize_buy(usd_value)]
    /\ UNCHANGED <<sv, COINMARKETCAP_API_KEY, pr, fx, progVars>>

SpecCategorize == Init /\ [][Categorize]_vars

----------------------------------------------------------------------------
(* send_video_with_retry, statement by statement.  sv.i is the loop         *)
(* variable; attempts counts the iterations begun, video_calls the          *)
(* send_video calls and videos those that got through, fallbacks the        *)
(* send_message calls and texts those that got through; errors is what      *)
(* line 505 logged; ret is "True", "False" or "raised" once the call ended  *)

\* what the HEAD request of line 497 can meet
HeadAnswers == {"200", "404", "timeout"}

\* line 493: the call enters the for loop, or falls to line 514
SendCall ==
    /\ sv.pc = "idle"
    /\ sv' = IF MAX_RETRIES > 0 THEN [SvIdle EXCEPT !.pc = "head"]
             ELSE [SvIdle EXCEPT !.pc = "returned", !.ret = "False"]
    /\ UNCHANGED <<COINMARKETCAP_API_KEY, pr, fx, call, progVars>>

\* lines 495-500: the HEAD request; a status other than 200 raises
SendHead ==
    /\ sv.pc = "head"
    /\ \E answer \in HeadAnswers :
         sv' = IF answer = "200"
               THEN [sv EXCEPT !.pc = "send_video", !.attempts = @ + 1]
               ELSE [sv EXCEPT !.pc = "except", !.attempts = @ + 1,
                               !.errors = Append(@, answer)]
    /\ UNCHANGED <<COINMARKETCAP_API_KEY, pr, fx, call, progVars>>

\* lines 501-503
SendVideo ==
    /\ sv.pc = "send_video"
    /\ \E ok \in BOOLEAN :
         sv' = IF ok
               THEN [sv EXCEPT !.pc = "returned", !.ret = "True",
                               !.video_calls = @ + 1, !.videos = @ + 1]
               ELSE [sv EXCEPT !.pc = "except", !.video_calls = @ + 1,
                               !.errors = Append(@, "send_video")]
    /\ UNCHANGED <<COINMARKETCAP_API_KEY, pr, fx, call, progVars>>

\* lines 504-506
SendExcept ==
    /\ sv.pc = "except"
    /\ sv' = [sv EXCEPT !.pc = IF sv.i = MAX_RETRIES - 1 THEN "fallback" ELSE "sleep"]
    /\ UNCHANGED <<COINMARKETCAP_API_KEY, pr, fx, call, progVars>>

\* lines 507-512: send_message is awaited inside the except clause, so an
\* exception it raises leaves the function
SendFallback ==
    /\ sv.pc = "fallback"
    /\ \E textOK \in BOOLEAN :
         sv' = IF textOK
               THEN [sv EXCEPT !.pc = "returned", !.ret = "False",
                               !.fallbacks = @ + 1, !.texts = @ + 1]
               ELSE [sv EXCEPT !.pc = "raised", !.ret = "raised", !.fallbacks = @ + 1]
    /\ UNCHANGED <<COINMARKETCAP_API_KEY, pr, fx, call, progVars>>

\* line 513, then the next iteration or line 514
SendSleep ==
    /\ sv.pc = "sleep"
    /\ sv' = IF sv.i + 1 < MAX_RETRIES
             THEN [sv EXCEPT !.pc = "head", !.i = @ + 1]
             ELSE [sv EXCEPT !.pc = "returned", !.ret = "False", !.i = @ + 1]
    /\ UNCHANGED <<COINMARKETCAP_API_KEY, pr, fx, call, progVars>>

NextSend == SendCall \/ SendHead \/ SendVideo \/ SendExcept \/ SendFallback \/ SendSleep

SpecSend == Init /\ [][NextSend]_vars

----------------------------------------------------------------------------
(* process_transaction called on its own: call.arg tells what                *)
(* check_execute_function returned as eth_value, handed holds the hash,      *)
(* call.res is "awaiting" during send_video_with_retry, then the result      *)

\* the prices the caller can pass
ProcessPrices == {Num(5, 1), Num(1, 1), Num(1, 0)}

\* line 522: what eth_value holds
EthKind(eth_value) ==
    IF eth_value = NoneEth THEN "None"
    ELSE IF eth_value <= 0 THEN "zero"
    ELSE "positive"

\* lines 519-553: the call up to its await, or to an early return False
ProcessCall ==
    /\ call.res # "awaiting"
    /\ \E h \in TX, lookupOK \in BOOLEAN, pets_price \in ProcessPrices :
         LET eth_value == IF lookupOK THEN TxEthValue(h) ELSE NoneEth
         IN  /\ handed' = <<h>>
             /\ call' = [fn |-> "process_transaction", arg |-> EthKind(eth_value),
                         res |-> IF ProcessPre(h, pets_price, eth_value,
                                               posted_transactions) = "send"
                                 THEN "awaiting" ELSE "False"]
    /\ UNCHANGED <<exceptCall, chain, ledgerFile, posted_transactions, transaction_cache,
                   last_block_number, last_transaction_hash, is_tracking_enabled,
                   active_chats, monitoring_task, recent_errors, mon, stop_pc, st,
                   histVars, detached>>

\* lines 554-560: send_video_with_retry returned
ProcessReturn ==
    /\ call.fn = "process_transaction" /\ call.res = "awaiting"
    /\ \E outcome \in SendOutcomes, ioOK \in BOOLEAN :
         /\ ProcessPost(handed[1], outcome, ioOK)
         /\ textSent' = IF outcome = "text" THEN textSent \cup {handed[1]} ELSE textSent
         /\ call' = [call EXCEPT !.res = IF MarkSeen(outcome) THEN "True" ELSE "False"]
    /\ UNCHANGED <<exceptCall, chain, transaction_cache, last_block_number,
                   last_transaction_hash, is_tracking_enabled, active_chats,
                   monitoring_task, recent_errors, mon, stop_pc, st, sendFailed,
                   handed, detached>>

SpecProcess == Init /\ [][ProcessCall \/ ProcessReturn]_vars

----------------------------------------------------------------------------
(* Properties *)

\* the Monitor Loop has gone through its whole batch
AtLoopEnd == mon.pc = "loop" /\ mon.idx > Len(mon.txs)

\* C1: once an identifier is a line of posted_transactions.txt, no later
\* cycle, /stats replay or restarted process emits an alert for it again.
C1_NoAlertOnceLedgered ==
    [][\A h \in TX : h \in Range(ledgerFile) => videoSent'[h] = videoSent[h]]_vars

\* C2: when a Monitor Loop cycle has begun (the ledger file is merged and the
\* fetch is about to start), every identifier whose alert was emitted is in
\* posted_transactions and is a line of posted_transactions.txt.
C2_AlertedAreLedgeredAtCycleStart ==
    mon.pc = "fetch" =>
        \A h \in TX : videoSent[h] > 0 =>
            h \in posted_transactions /\ h \in Range(ledgerFile)

\* C3: process_transaction adds an identifier to posted_transactions or
\* appends it to posted_transactions.txt only in the step in which the
\* emission of its alert succeeded; no other step puts it there (loading
\* the file only copies lines into memory).
C3_LedgerOnlyAfterSuccess ==
    [][\A h \in TX :
          (\/ h \in posted_transactions' /\ h \notin posted_transactions
                /\ h \notin Range(ledgerFile)
           \/ Len(ledgerFile') > Len(ledgerFile) /\ ledgerFile'[Len(ledgerFile')] = h)
          => videoSent'[h] = videoSent[h] + 1]_vars

\* an alerted transfer is in both parts of the ledger while a transfer whose
\* emission failed is in neither
C3_Witness ==
    /\ \E h \in TX : videoSent[h] = 1 /\ h \in posted_transactions /\ h \in Range(ledgerFile)
    /\ \E g \in sendFailed : g \notin posted_transactions /\ g \notin Range(ledgerFile)
                              /\ videoSent[g] = 0

\* C4: a transfer whose emission by the running Monitor Loop failed and that
\* the fetch of a cycle returned has been handed to process_transaction by
\* the end of that cycle.
C4_FailedStaysEligible ==
    AtLoopEnd =>
        \A h \in Range(mon.txs) :
            h \in sendFailed /\ h \notin posted_transactions => h \in Range(handed)

\* C5: a transfer handed to process_transaction whose USD value is below the
\* minimum is in the ledger at the end of the cycle, without an alert; a
\* transfer of exactly the minimum (50 tokens at $1) is sent.
C5_BelowMinimumMarkedSeen ==
    /\ AtLoopEnd =>
          \A h \in Range(handed) :
              LtInt(UsdValue(h, mon.pets_price), MIN_USD) =>
                  /\ h \in posted_transactions
                  /\ h \in Range(ledgerFile)
                  /\ videoSent[h] = 0
    /\ Floor(UsdValue(2, Num(1, 0))) = MIN_USD
    /\ ProcessPre(2, Num(1, 0), 1, {}) = "send"

\* C6: at the end of a cycle, every transfer of the fetched batch that is at
\* or above the minimum (and carries ETH) was handed to process_transaction
\* in this cycle, or has its alert already, or is still above
\* last_block_number so that a later fetch returns it and the block filter
\* lets it through.
C6_FetchedTransferGetsItsAlert ==
    AtLoopEnd =>
        \A h \in Range(mon.txs) :
            (TxEthValue(h) > 0 /\ ~LtInt(UsdValue(h, mon.pets_price), MIN_USD)) =>
                \/ h \in Range(handed)
                \/ videoSent[h] >= 1
                \/ Block(h) > last_block_number

\* the constant the running resolver falls back to
ResolverFallback == IF pr.fn = "eth" THEN FALLBACK_ETH_PRICE ELSE FALLBACK_PETS_PRICE

\* C7: a resolver call never raises, and what it returns after every source
\* failed is its fallback constant.
C7_ResolversNeverRaise ==
    /\ pr.status # "raised"
    /\ (pr.status = "returned" /\ "fallback" \in pr.used) => pr.val = ResolverFallback

\* a payload whose price is non-positive, unparsable or missing
InvalidPrice(resp) == resp.kind = "payload" /\ ParseSource(resp).res = "exception"

\* the on-chain price the running call can get
ThirdSource == UniswapPrice(COINMARKETCAP_API_KEY, pr.uni, pr.eth)

\* C8: when the call of get_pets_price_from_uniswap is over, the first and
\* the second source answered invalid prices and the on-chain source yields
\* a positive price, the call returned exactly the on-chain price.
C8_ThirdSourceReturned ==
    ( /\ pr.fn = "pets"
      /\ pr.status \in {"returned", "raised"}
      /\ COINMARKETCAP_API_KEY
      /\ \A i \in DOMAIN pr.gecko : InvalidPrice(pr.gecko[i])
      /\ InvalidPrice(pr.cmc)
      /\ ThirdSource.res = "value"
      /\ ThirdSource.val.t = "num" )
    => /\ pr.status = "returned"
       /\ pr.val = ThirdSource.val
       /\ "fallback" \notin pr.used

\* C9: every value a resolver returns is a strictly positive number.
C9_ReturnedPriceIsPositive ==
    pr.status = "returned" => pr.val.t = "num" /\ pr.val.m > 0

\* C10: a call of fetch_etherscan_transactions never raises; when the
\* upstream failed it returns the cached batch (empty when there is none)
\* and leaves transaction_cache and last_block_number as they were.
C10_FetchNeverRaises ==
    fx.called =>
        /\ ~fx.raised
        /\ ~fx.ok => /\ fx.ret = fx.cacheBefore
                     /\ transaction_cache = fx.cacheBefore
                     /\ last_block_number = fx.lbnBefore

\* a failed fetch answered with a cached batch
C10_Witness == fx.called /\ ~fx.ok /\ ~fx.raised /\ fx.ret # <<>>

\* C11: when a call without a starting block succeeded and returned a
\* non-empty batch and the upstream of the next call fails, the next call returns exactly
\* that batch.
C11_FailedFetchReturnsLastBatch ==
    ( /\ fx.called /\ ~fx.http
      /\ fx.prevCalled /\ fx.prevOk /\ fx.prevStartblock = 0 /\ fx.prevRet # <<>> )
    => fx.ret = fx.prevRet

\* C12: a call without a starting block made while the last successful
\* fetch is younger than TRANSACTION_CACHE_THRESHOLD returns the cached
\* batch and sends no upstream request.
C12_FreshCacheIsServed ==
    ( /\ fx.called
      /\ fx.startblock = 0
      /\ fx.stampBefore # 0
      /\ fx.now - fx.stampBefore < TRANSACTION_CACHE_THRESHOLD )
    => ~fx.requested /\ fx.ret = fx.cacheBefore

\* C13: a response that arrived and whose records are well formed but for
\* one is not a failure, and the call returns every well-formed transfer of
\* the watched address in it.
C13_MalformedRecordDroppedAlone ==
    (fx.called /\ fx.http /\ fx.glitch # "none") =>
        /\ fx.ok
        /\ ~fx.raised
        /\ fx.ret = fx.wellFormed

\* a USD value of the grid in tenths of a dollar
Tenths(x) == IF x.e = 0 THEN 10 * x.m ELSE x.m

\* the rank of a category, lowest first
Tier(category) ==
    CASE category = "MicroPets Buy" -> 0
      [] category = "Medium Bullish Buy" -> 1
      [] category = "Whale Buy" -> 2
      [] category = "Extra Large Buy" -> 3

\* the category the thresholds [100, 500, 1000] give with '>=' boundaries
TierOf(tenths) ==
    IF tenths < 10 * BUY_THRESHOLD_SMALL THEN 0
    ELSE IF tenths < 10 * BUY_THRESHOLD_MEDIUM THEN 1
    ELSE IF tenths < 10 * BUY_THRESHOLD_LARGE THEN 2
    ELSE 3

\* C14: categorize_buy gives the tier of the thresholds [100, 500, 1000]
\* with a boundary value in the higher tier, and of two values the larger
\* one never gets the lower tier.
C14_CategorizeBuyTiers ==
    [][call'.fn = "categorize_buy" =>
          /\ Tier(call'.res) = TierOf(Tenths(call'.arg))
          /\ (call.fn = "categorize_buy" /\ Tenths(call.arg) <= Tenths(call'.arg))
                => Tier(call.res) <= Tier(call'.res)]_vars

\* the first boundary value was categorized, into the higher tier
C14_Witness ==
    /\ call.fn = "categorize_buy"
    /\ call.arg = Num(BUY_THRESHOLD_SMALL, 0)
    /\ call.res = "Medium Bullish Buy"

\* C15: the Monitor Loop runs its cycles only while tracking is enabled;
\* while tracking is enabled and no /stop is in progress, monitoring_task
\* refers to the loop (so that /track sees it and starts no second one);
\* and once tracking is disabled and no /stop is in progress,
\* monitoring_task is None or the startup task has not run yet.
C15_IdleOrRunning ==
    /\ mon.pc \notin {"none", "created"} => is_tracking_enabled
    /\ (stop_pc = "idle" /\ is_tracking_enabled) => monitoring_task = "task"
    /\ (stop_pc = "idle" /\ ~is_tracking_enabled) =>
          monitoring_task = "None" \/ mon.pc = "created"

\* C17: a privileged command from a chat other than the admin's is answered
\* 'Unauthorized' and leaves is_tracking_enabled, monitoring_task,
\* active_chats, posted_transactions, the ledger file, last_block_number and
\* recent_errors as they were.
C17_UnauthorizedChangesNothing ==
    [][(call' # call /\ call'.fn \in PrivilegedCommands /\ call'.arg # ADMIN_CHAT_ID) =>
          /\ call'.res = "Unauthorized"
          /\ UNCHANGED <<is_tracking_enabled, monitoring_task, active_chats,
                         posted_transactions, ledgerFile, last_block_number,
                         recent_errors>>]_vars

\* a stranger's /stop was refused while tracking was on, and tracking is on
C17_Witness ==
    /\ call.fn = "/stop" /\ call.arg = "stranger" /\ call.res = "Unauthorized"
    /\ is_tracking_enabled /\ monitoring_task = "task" /\ mon.pc = "sleep"

\* C16: a cycle in which a resolver raised ends in the sleep with the error
\* as the last entry of recent_errors and with tracking as it was; a fetch
\* never ends the loop; and a sleeping loop that goes on while tracking is
\* enabled goes on with a further cycle.
C16_FailingCycleKeepsRunning ==
    [][/\ (mon.pc = "prices" /\ mon'.pc # "prices" /\ mon'.pc # "loop") =>
             /\ mon'.pc = "sleep"
             /\ recent_errors' # <<>>
             /\ recent_errors'[Len(recent_errors')] = "RetryError"
             /\ Len(recent_errors') <= MAX_RECENT_ERRORS
             /\ is_tracking_enabled' = is_tracking_enabled
             /\ monitoring_task' = monitoring_task
       /\ (mon.pc = "fetch" /\ mon'.pc # "fetch") => mon'.pc \in {"prices", "sleep"}
       /\ (mon.pc = "sleep" /\ mon'.pc # "sleep" /\ is_tracking_enabled') =>
             mon'.pc = "cycle"]_vars

\* a further cycle runs after one that failed
C16_Witness ==
    /\ mon.pc = "loop"
    /\ recent_errors # <<>>
    /\ recent_errors[Len(recent_errors)] = "RetryError"
    /\ is_tracking_enabled

\* the number of lines of posted_transactions.txt that hold h
Lines(h) == Cardinality({i \in DOMAIN ledgerFile : ledgerFile[i] = h})

\* C18: process_transaction leaves the ledger alone for an identifier that
\* is in posted_transactions, and posted_transactions.txt holds every
\* identifier on at most one line.
C18_OneLinePerIdentifier ==
    /\ \A h \in TX : ProcessPre(h, Num(5, 1), 1, posted_transactions \cup {h}) = "skip"
    /\ \A h \in TX : Lines(h) <= 1

\* the distinct non-empty lines of posted_transactions.txt
DistinctLines == {ledgerFile[i] : i \in DOMAIN ledgerFile} \ {BlankLine}

\* C19: a merge of the ledger file leaves in posted_transactions the
\* previous set united with the distinct non-empty lines (nothing when the
\* file is missing or unreadable), so merging the same file again changes
\* nothing.
C19_MergeIsIdempotent ==
    [][(call'.fn = "load_posted_transactions" /\ ledgerFile' = ledgerFile) =>
          LET loaded == IF call'.arg = "readable" THEN DistinctLines ELSE {}
          IN  /\ posted_transactions' = posted_transactions \cup loaded
              /\ loaded \subseteq posted_transactions =>
                    posted_transactions' = posted_transactions]_vars

\* a file with a duplicate and a blank line was merged
C19_Witness ==
    /\ call.fn = "load_posted_transactions" /\ call.arg = "readable"
    /\ BlankLine \in Range(ledgerFile)
    /\ \E h \in TX : Lines(h) = 2 /\ posted_transactions = {h}

\* an environment the claim calls fatal: a required credential is missing,
\* an address is set to something that is not an address, or the connection
\* to the node fails
Fatal(env) ==
    \/ \E name \in {"TELEGRAM_BOT_TOKEN", "CLOUDINARY_CLOUD_NAME", "ETHERSCAN_API_KEY",
                    "INFURA_URL", "ADMIN_USER_ID", "TELEGRAM_CHAT_ID"} : env[name] = None
    \/ env.RAILWAY_PUBLIC_DOMAIN = ""
    \/ env.RAILWAY_PUBLIC_DOMAIN = None /\ env.APP_URL \in {None, ""}
    \/ env.CONTRACT_ADDRESS \notin {None, ValidAddress}
    \/ env.TARGET_ADDRESS \notin {None, ValidAddress}
    \/ ~env.is_connected

\* C20: the start of the process ends in a ValueError, and tracking never
\* starts, when a required credential is missing, an address is not valid or
\* the node is not connected; in every other environment, with or without
\* COINMARKETCAP_API_KEY, the process serves.
C20_RefusesToStart ==
    call.fn = "startup" =>
        IF Fatal(call.arg)
          THEN /\ call.res # "serving"
               /\ ~is_tracking_enabled /\ monitoring_task = "None" /\ mon.pc = "none"
          ELSE call.res = "serving"

\* the process was started without TELEGRAM_CHAT_ID and nothing else wrong
C20_Witness ==
    /\ call.fn = "startup"
    /\ call.arg.TELEGRAM_CHAT_ID = None
    /\ \A name \in {"TELEGRAM_BOT_TOKEN", "CLOUDINARY_CLOUD_NAME", "ETHERSCAN_API_KEY",
                    "INFURA_URL", "ADMIN_USER_ID", "APP_URL"} : call.arg[name] \notin {None, ""}
    /\ call.arg.CONTRACT_ADDRESS = ValidAddress /\ call.arg.TARGET_ADDRESS = ValidAddress
    /\ call.arg.is_connected
    /\ call.res = "ValueError: Missing required environment variables"

\* C21: the cancellation of /stop writes nothing to posted_transactions or to
\* posted_transactions.txt, and when the /stop handler has completed no
\* monitoring task is left to fetch, alert or append: tracking is off and
\* the Monitor Loop is over.
C21_StopEndsTheLoop ==
    [][/\ (stop_pc = "idle" /\ stop_pc' = "awaiting") =>
             (posted_transactions' = posted_transactions /\ ledgerFile' = ledgerFile)
       /\ (stop_pc = "awaiting" /\ stop_pc' = "idle") =>
             (mon'.pc = "none" /\ ~is_tracking_enabled')]_vars

\* the tasks that are inside the while loop of monitor_transactions
PollingTasks ==
    (IF mon.pc \in {"none", "created"} THEN 0 ELSE 1)
    + Cardinality({i \in DOMAIN detached : detached[i].pc # "created"})

\* C22: at most one monitor_transactions task is inside its polling loop.
C22_OneMonitorTask == PollingTasks <= 1

\* the Monitor Loop has alerted h in this run of the process
AlertedByMonitor(h) ==
    /\ h \in posted_transactions
    /\ last_transaction_hash = h \/ (mon.pc \in {"loop", "process", "send"} /\ mon.new_last_hash = h)

\* /stats has handed h to process_transaction for the alert chat and got it back
ReplayedByStats(h) ==
    /\ h \in posted_transactions
    /\ \/ h \in st.seen_hashes
       \/ st.pc \in {"process2", "send2", "sleep30"} /\ st.txs[st.idx] = h

\* C23: a transfer that the Monitor Loop and a /stats replay process at the
\* same time is alerted and appended once: the send of the task that comes
\* second, pending since before the other task marked the transfer, brings
\* no second alert and no second line.
C23_InterleavedAlertOnce ==
    [][\A h \in TX :
          (\/ st.pc = "send1" /\ st.txs[st.idx] = h /\ AlertedByMonitor(h)
           \/ mon.pc = "send" /\ mon.txs[mon.idx] = h /\ ReplayedByStats(h))
          => (videoSent'[h] = videoSent[h] /\ ledgerFile' = ledgerFile)]_vars

\* C24: a first source that failed the first attempt of a resolver call is
\* tried again (its next answer may be a price) before the call consults
\* another source or returns.
C24_FailedSourceIsRetriedFirst ==
    (pr.status # "idle" /\ Len(pr.gecko) = 1 /\ ParseSource(pr.gecko[1]).res # "value")
        => (pr.status = "running" /\ pr.used \subseteq {"gecko"})

\* C25: a step of a handler the webhook dispatches to (here /stats, the one
\* that calls process_transaction) leaves posted_transactions and
\* posted_transactions.txt as they were.
C25_WebhookLeavesLedger ==
    [][(st' # st /\ mon' = mon) =>
          (posted_transactions' = posted_transactions /\ ledgerFile' = ledgerFile)]_vars

\* C26: at the end of the for loop of a cycle, whatever the number of
\* transfers it processed, the cycle has called get_pets_price_from_uniswap
\* once and get_eth_to_usd once.
C26_PricesResolvedOncePerCycle ==
    AtLoopEnd => (mon.pets_calls = 1 /\ mon.eth_calls = 1)

\* C27: of two transfers a cycle hands to process_transaction, the one in
\* the lower block is handed first.
C27_OldestFirst ==
    \A i, j \in DOMAIN handed : i < j => Block(handed[i]) <= Block(handed[j])

\* C28: recent_errors never holds more than 5 entries, and every change of
\* it appends one entry, dropping the oldest one of a full buffer and
\* keeping the others in their order.
C28_RecentErrorsRingBuffer ==
    [][/\ Len(recent_errors') <= MAX_RECENT_ERRORS
       /\ recent_errors' # recent_errors =>
             \E e \in {"RetryError", "Webhook error"} :
                 recent_errors' = IF Len(recent_errors) < MAX_RECENT_ERRORS
                                  THEN Append(recent_errors, e)
                                  ELSE Append(Tail(recent_errors), e)]_vars

\* the webhook handler found a full buffer that held errors of the Monitor
\* Loop and of the webhook, and recorded one more
C28_Witness ==
    /\ call.fn = "webhook" /\ call.arg = "full"
    /\ Len(recent_errors) = MAX_RECENT_ERRORS
    /\ recent_errors[1] = "RetryError"
    /\ recent_errors[2] = "Webhook error"
    /\ recent_errors[MAX_RECENT_ERRORS] = "Webhook error"

\* a is a prefix of b
IsPrefix(a, b) == Len(a) <= Len(b) /\ SubSeq(b, 1, Len(a)) = a

\* the step starts a new run of the process
NewRun == posted_transactions' = {} /\ mon'.pc = "created" /\ ~is_tracking_enabled'

\* C29: every step keeps the lines of posted_transactions.txt as a prefix of
\* the file, and keeps every element of posted_transactions unless it starts
\* a new run of the process.
C29_LedgerAppendOnly ==
    [][/\ IsPrefix(ledgerFile, ledgerFile')
       /\ posted_transactions \subseteq posted_transactions' \/ NewRun]_vars

\* two identifiers were appended one after the other and are in memory
C29_Witness ==
    /\ Len(ledgerFile) = 2 /\ ledgerFile[1] # ledgerFile[2]
    /\ posted_transactions = Range(ledgerFile)

\* C30: once the Monitor Loop has sent the caption of a transfer as fallback
\* text, no later step of the loop sends the alert of that transfer again.
C30_FallbackTextIsFinal ==
    [][\A h \in textSent : mon' # mon => videoSent'[h] = videoSent[h]]_vars

\* the send_video_with_retry call has ended
SendEnded == sv.pc \in {"returned", "raised"}

\* C31: send_video_with_retry makes at most max_retries video attempts,
\* returns True exactly when one attempt succeeded and makes no attempt
\* after it, and when every attempt failed it sends the fallback text
\* exactly once and returns False
C31_BoundedSendWithFallback ==
    /\ sv.attempts <= MAX_RETRIES
    /\ sv.video_calls <= MAX_RETRIES
    /\ sv.videos = 1 <=> sv.ret = "True"
    /\ sv.videos = 1 => sv.pc = "returned"
    /\ (SendEnded /\ sv.videos = 0) =>
           (sv.fallbacks = 1 /\ sv.texts = 1 /\ sv.ret = "False")

\* the Monitor Loop has just alerted h with a video
MonitorAlerts(h) ==
    /\ mon.pc = "send" /\ mon.txs[mon.idx] = h
    /\ mon' # mon
    /\ videoSent'[h] = videoSent[h] + 1

C33_NoAlertWithoutEthValue ==
    [][(call'.fn = "process_transaction" /\ call'.arg \in {"None", "zero"}) =>
          /\ call'.res = "False"
          /\ videoSent' = videoSent /\ textSent' = textSent
          /\ posted_transactions' = posted_transactions
          /\ ledgerFile' = ledgerFile]_vars

C33_Witness ==
    /\ call.fn = "process_transaction" /\ call.arg = "None" /\ call.res = "False"
    /\ handed = <<2>>
    /\ 2 \notin posted_transactions
    /\ 3 \in posted_transactions

\* a get_pets_price_from_uniswap call has returned after reading the pool
ReadThePool ==
    /\ pr.fn = "pets" /\ pr.status = "returned"
    /\ "uniswap" \in pr.used /\ pr.uni.kind = "reserves"

\* the price the ordering of the claim gives: the token reserve is
\* reserves[0] exactly when token0 is the contract address in any case
OrderedPrice ==
    LET same == pr.uni.token0.hex = CONTRACT_ADDRESS.hex
        token == IF same THEN pr.uni.reserves[1] ELSE pr.uni.reserves[2]
        eth == IF same THEN pr.uni.reserves[2] ELSE pr.uni.reserves[1]
        ratio == DivInt(eth, token)
    IN  Mul(Num(ratio.m, ratio.e - 18), get_eth_to_usd(COINMARKETCAP_API_KEY, pr.eth).val)

TokenReserve ==
    IF pr.uni.token0.hex = CONTRACT_ADDRESS.hex THEN pr.uni.reserves[1]
    ELSE pr.uni.reserves[2]

\* C34: the on-chain price takes the token reserve from reserves[0] exactly
\* when token0 is the contract address, compared case-insensitively, and
\* from reserves[1] otherwise; with a zero token reserve the resolver
\* returns the constant
C34_TokenOrderingExplicit ==
    ReadThePool =>
        /\ TokenReserve = 0 => ("fallback" \in pr.used /\ pr.val = FALLBACK_PETS_PRICE)
        /\ "fallback" \notin pr.used => (TokenReserve > 0 /\ pr.val = OrderedPrice)
====
